---- MODULE Spec2Model ----
(***************************************************************************)
(* Model of src/app.py: the Streamlit script that reads a traceability     *)
(* export, computes per-event gaps, work blocks and worked time            *)
(* (procesar_celestica) and the global KPIs (cycle time and capacity).     *)
(*                                                                         *)
(* Time is held in whole seconds.  Gap_Min and Tiempo_Real_Trabajado are   *)
(* minutes in the code (seconds / 60); here they are held as the integer   *)
(* numerator over the fixed denominator SecPerMin, so that                 *)
(* "Gap_Min > umbral_descanso" is "Gap_Min > SecPerMin * umbral_descanso". *)
(* Quotients (ct_medio_global, capacidad) are exact fractions              *)
(* [num, den]; a fraction with den = 0 is a division by zero.              *)
(* umbral_lote is passed to procesar_celestica but read by no statement,   *)
(* so it is not part of the state.                                         *)
(***************************************************************************)
EXTENDS Integers, Sequences, FiniteSets, TLC

(* ---------------- bounds of the model ---------------- *)
MaxRows == 3

(* ---------------- program constants ---------------- *)
SecPerMin == 60
DefaultDescanso == 45
DefaultEficiencia == 85
DefaultHoras == 8

(* Values the sidebar widgets are moved to. number_input has no min_value, *)
(* so a negative threshold and zero hours can be entered.                  *)
UmbralValues == {-1, 1, DefaultDescanso}
EficienciaValues == {50, DefaultEficiencia}
HorasValues == {0, DefaultHoras}

(* ---------------- cells of the timestamp column ---------------- *)
(* After mapear_columnas every cell is text (df.astype(str)).  A cell is   *)
(* either clock text h:m:s or other text such as "nan".                    *)
Clock(h, m, s) == [dtype |-> "object", h |-> h, m |-> m, s |-> s]
Texto(t) == [dtype |-> "object", text |-> t]
RawCells ==
  { Clock(13, 59, 0), Clock(13, 59, 30), Clock(14, 0, 0), Clock(14, 2, 0),
    Clock(13, 60, 0), Texto("nan") }
UnitIds == {"A", "B"}

NaT == [dtype |-> "datetime64", isnat |-> TRUE]
Timestamp(sec) == [dtype |-> "datetime64", isnat |-> FALSE, sec |-> sec]

(* pd.to_datetime(cell, errors='coerce') *)
ToDatetime(c) ==
  IF c.dtype = "datetime64" THEN c
  ELSE IF "h" \in DOMAIN c /\ c.h \in 0..23 /\ c.m \in 0..59 /\ c.s \in 0..59
       THEN Timestamp(3600 * c.h + 60 * c.m + c.s)
       ELSE NaT

Fraction(n, d) == [num |-> n, den |-> d]
Zero == Fraction(0, 1)

VARIABLES umbral_descanso, eficiencia_target, h_turno,
          df_clean, df_arg, df_final,
          tiempo_total, piezas_totales, ct_medio_global, capacidad,
          ui, pc

vars == <<umbral_descanso, eficiencia_target, h_turno,
          df_clean, df_arg, df_final,
          tiempo_total, piezas_totales, ct_medio_global, capacidad,
          ui, pc>>

widgets == <<umbral_descanso, eficiencia_target, h_turno>>
kpis == <<tiempo_total, piezas_totales, ct_medio_global, capacidad>>

(* Tables returned by mapear_columnas: rows in file order, index 0..n-1.   *)
Tables ==
  UNION { [1..n -> [fec : RawCells, unit_id : UnitIds]] : n \in 0..MaxRows }

WithIndex(t) ==
  [i \in 1..Len(t) |-> [idx |-> i - 1, fec |-> t[i].fec, unit_id |-> t[i].unit_id]]

Init ==
  /\ umbral_descanso = DefaultDescanso
  /\ eficiencia_target = DefaultEficiencia
  /\ h_turno = DefaultHoras
  /\ df_clean = <<>>
  /\ df_arg = <<>>
  /\ df_final = <<>>
  /\ tiempo_total = 0
  /\ piezas_totales = 0
  /\ ct_medio_global = Zero
  /\ capacidad = Zero
  /\ ui = "uploader"
  /\ pc = "idle"

(* ---------------- sidebar ---------------- *)
Sidebar ==
  /\ pc = "idle"
  /\ \E u \in UmbralValues, e \in EficienciaValues, h \in HorasValues :
        /\ <<u, e, h>> # widgets
        /\ umbral_descanso' = u
        /\ eficiencia_target' = e
        /\ h_turno' = h
  /\ UNCHANGED <<df_clean, df_arg, df_final, kpis, ui, pc>>

(* ---------------- upload and column mapping ---------------- *)
ErrorLectura ==
  /\ pc = "idle"
  /\ ui' = "error_lectura"
  /\ pc' = "done"
  /\ UNCHANGED <<widgets, df_clean, df_arg, df_final, kpis>>

ErrorColumnas ==
  /\ pc = "idle"
  /\ ui' = "error_columnas"
  /\ pc' = "done"
  /\ UNCHANGED <<widgets, df_clean, df_arg, df_final, kpis>>

MapearColumnas ==
  /\ pc = "idle"
  /\ \E t \in Tables :
        /\ df_clean' = WithIndex(t)
        /\ df_arg' = WithIndex(t)
  /\ pc' = "mapped"
  /\ UNCHANGED <<widgets, df_final, kpis, ui>>

(* ---------------- procesar_celestica ---------------- *)
(* A. Limpieza: df[c_fec] = pd.to_datetime(df[c_fec], errors='coerce')     *)
(* assigns the parsed column into the table object it was handed.          *)
ParseColumn(t) == [i \in DOMAIN t |-> [t[i] EXCEPT !.fec = ToDatetime(@)]]

IsValid(r) == r.fec.dtype = "datetime64" /\ ~r.fec.isnat

DropNa(t) == SelectSeq(t, IsValid)

Range(t) == {t[i] : i \in DOMAIN t}

RECURSIVE Perms(_)
Perms(S) ==
  IF S = {} THEN {<<>>}
  ELSE UNION {{<<x>> \o p : p \in Perms(S \ {x})} : x \in S}

IsSorted(t) == \A i \in 1..(Len(t) - 1) : t[i].fec.sec <= t[i + 1].fec.sec

(* The rows left in file order. *)
SortValuesFileOrder(t) == {t}

(* sort_values(c_fec) with the default (unstable) sort: any ascending      *)
(* arrangement of the rows; rows of equal timestamp come in any order.     *)
SortValues(t) == {p \in Perms(Range(t)) : IsSorted(p)}

(* The difference taken from the first event instead of the previous one. *)
GapMinFromFirst(t, i) == IF i = 1 THEN 0 ELSE t[i].fec.sec - t[1].fec.sec

(* B. df[c_fec].diff().dt.total_seconds().fillna(0) / 60 *)
GapMin(t, i) == IF i = 1 THEN 0 ELSE t[i].fec.sec - t[i - 1].fec.sec

(* The threshold compared with >= instead of >. *)
NuevoBloqueGeq(gap, umbral) == gap >= SecPerMin * umbral

(* C. df['Gap_Min'] > umbral_descanso *)
NuevoBloque(gap, umbral) == gap > SecPerMin * umbral

(* df['Nuevo_Bloque'].cumsum() *)
BloqueId(t, i, umbral) ==
  Cardinality({j \in 1..i : NuevoBloque(GapMin(t, j), umbral)})

NombrarTurno(sec, bloque) ==
  LET hora == sec \div 3600
      turno == IF 6 <= hora /\ hora < 14 THEN "Manana"
               ELSE IF 14 <= hora /\ hora < 22 THEN "Tarde" ELSE "Noche"
  IN  <<turno, bloque>>

(* The idle gaps left in the worked time. *)
TiempoRealSinFiltro(gap, umbral) == gap

(* D. Tiempo_Real_Trabajado = Gap_Min, then 0 where Gap_Min > umbral *)
TiempoRealTrabajado(gap, umbral) ==
  IF gap > SecPerMin * umbral THEN 0 ELSE gap

Derivar(t, umbral) ==
  [i \in DOMAIN t |->
     [idx |-> t[i].idx, fec |-> t[i].fec, unit_id |-> t[i].unit_id,
      Gap_Min |-> GapMin(t, i),
      Nuevo_Bloque |-> NuevoBloque(GapMin(t, i), umbral),
      Bloque_ID |-> BloqueId(t, i, umbral),
      Turno_Virtual |-> NombrarTurno(t[i].fec.sec, BloqueId(t, i, umbral)),
      Tiempo_Real_Trabajado |-> TiempoRealTrabajado(GapMin(t, i), umbral)]]

(* The call at line 163 running to its return, when a row is left after   *)
(* dropna.                                                                 *)
ProcesarCelestica ==
  /\ pc = "mapped"
  /\ DropNa(ParseColumn(df_clean)) # <<>>
  /\ df_clean' = ParseColumn(df_clean)
  /\ \E s \in SortValues(DropNa(ParseColumn(df_clean))) :
        df_final' = Derivar(s, umbral_descanso)
  /\ pc' = "processed"
  /\ UNCHANGED <<widgets, df_arg, kpis, ui>>

(* The same call when no row is left: lines 116-126 run on the empty frame *)
(* and control reaches df.apply(nombrar_turno, axis=1) at line 134.        *)
ProcesarCelesticaVacio ==
  /\ pc = "mapped"
  /\ DropNa(ParseColumn(df_clean)) = <<>>
  /\ df_clean' = ParseColumn(df_clean)
  /\ pc' = "apply_vacio"
  /\ UNCHANGED <<widgets, df_arg, df_final, kpis, ui>>

(* On an empty frame apply yields a frame, not a column, and whether the   *)
(* assignment at line 134 raises depends on the pandas build: either the   *)
(* script stops with the exception shown ...                               *)
ApplyVacioRaises ==
  /\ pc = "apply_vacio"
  /\ ui' = "exception"
  /\ pc' = "done"
  /\ UNCHANGED <<widgets, df_clean, df_arg, df_final, kpis>>

(* ... or the function returns the empty frame.                            *)
ApplyVacioReturns ==
  /\ pc = "apply_vacio"
  /\ df_final' = Derivar(<<>>, umbral_descanso)
  /\ pc' = "processed"
  /\ UNCHANGED <<widgets, df_clean, df_arg, kpis, ui>>

(* ---------------- KPIs globales ---------------- *)
RECURSIVE SumTiempo(_, _)
SumTiempo(t, i) ==
  IF i = 0 THEN 0 ELSE SumTiempo(t, i - 1) + t[i].Tiempo_Real_Trabajado

TiempoTotal(t) == SumTiempo(t, Len(t))

(* tiempo_total / piezas_totales if piezas_totales > 0 else 0  (minutes)   *)
CtMedioGlobal(tiempo, piezas) ==
  IF piezas > 0 THEN Fraction(tiempo, SecPerMin * piezas) ELSE Zero

(* The division made without the ct > 0 guard. *)
CapacidadSinGuarda(horas, ct, eficiencia) ==
  Fraction(horas * 60 * ct.den * eficiencia, ct.num * 100)

(* (h_turno * 60) / ct * eficiencia_target if ct > 0 else 0 *)
Capacidad(horas, ct, eficiencia) ==
  IF ct.num > 0
  THEN Fraction(horas * 60 * ct.den * eficiencia, ct.num * 100)
  ELSE Zero

Kpis ==
  /\ pc = "processed"
  /\ tiempo_total' = TiempoTotal(df_final)
  /\ piezas_totales' = Len(df_final)
  /\ ct_medio_global' = CtMedioGlobal(TiempoTotal(df_final), Len(df_final))
  /\ capacidad' =
       Capacidad(h_turno,
                 CtMedioGlobal(TiempoTotal(df_final), Len(df_final)),
                 eficiencia_target)
  /\ pc' = "kpis"
  /\ UNCHANGED <<widgets, df_clean, df_arg, df_final, ui>>

(* st.success("Analisis Completado ...") and the three metrics *)
Mostrar ==
  /\ pc = "kpis"
  /\ ui' = "success"
  /\ pc' = "done"
  /\ UNCHANGED <<widgets, df_clean, df_arg, df_final, kpis>>

(* The file is removed from the uploader; the next run starts afresh.      *)
Rerun ==
  /\ pc = "done"
  /\ df_clean' = <<>>
  /\ df_arg' = <<>>
  /\ df_final' = <<>>
  /\ tiempo_total' = 0
  /\ piezas_totales' = 0
  /\ ct_medio_global' = Zero
  /\ capacidad' = Zero
  /\ ui' = "uploader"
  /\ pc' = "idle"
  /\ UNCHANGED widgets

Next ==
  \/ Sidebar
  \/ ErrorLectura
  \/ ErrorColumnas
  \/ MapearColumnas
  \/ ProcesarCelestica
  \/ ProcesarCelesticaVacio
  \/ ApplyVacioRaises
  \/ ApplyVacioReturns
  \/ Kpis
  \/ Mostrar
  \/ Rerun

Spec == Init /\ [][Next]_vars

(* ======================================================================= *)
(* Properties                                                              *)
(* ======================================================================= *)
Returned == pc \in {"processed", "kpis"} \/ ui = "success"
KpisDone == pc = "kpis" \/ ui = "success"

N == Len(df_final)
Sec(i) == df_final[i].fec.sec
Delta(i) == Sec(i) - Sec(i - 1)
Umbral == SecPerMin * umbral_descanso
IdleGaps == {i \in 2..N : Delta(i) > Umbral}
WorkGaps == {i \in 2..N : Delta(i) <= Umbral}

RECURSIVE SumDelta(_)
SumDelta(S) ==
  IF S = {} THEN 0
  ELSE LET i == CHOOSE j \in S : TRUE IN Delta(i) + SumDelta(S \ {i})

(* ct_medio_global (minutes) equals d seconds *)
CtEqualsSeconds(d) == ct_medio_global.num * SecPerMin = d * ct_medio_global.den

ValidCount(t) ==
  Cardinality({i \in DOMAIN t : ToDatetime(t[i].fec) # NaT})

(* C1: events spaced d <= U apart with a single gap > U inserted: the idle *)
(* gap adds nothing to the numerator and no unit to the denominator, so    *)
(* the cycle-time estimate equals d.                                       *)
C1_IdleGapExcluded ==
  (KpisDone /\ Cardinality(IdleGaps) = 1 /\ WorkGaps # {}
     /\ \A i, j \in WorkGaps : Delta(i) = Delta(j))
  => \A i \in WorkGaps : CtEqualsSeconds(Delta(i))

(* C2: n >= 2 events evenly spaced d apart, d below the idle threshold:    *)
(* the first event is left out of the gap statistics, the estimate is over *)
(* n-1 gaps and equals d.                                                  *)
C2_FirstEventExcluded ==
  (KpisDone /\ N >= 2 /\ IdleGaps = {}
     /\ \A i, j \in 2..N : Delta(i) = Delta(j))
  => \A i \in 2..N : CtEqualsSeconds(Delta(i))

(* Batches of identical timestamps in the sorted output.                   *)
Batch(i) == {j \in 1..N : Sec(j) = Sec(i)}
BatchFirst(i) == CHOOSE j \in Batch(i) : \A k \in Batch(i) : j <= k
HasPrior(i) == BatchFirst(i) > 1
PriorGap(i) == Sec(i) - Sec(BatchFirst(i) - 1)

(* C3 (as stated): every one of the k events of a batch preceded by a gap  *)
(* of D seconds is assigned a per-unit time of D/k.                        *)
C3_GapDividedAmongBatch ==
  Returned =>
    \A i \in 1..N :
      HasPrior(i) =>
        df_final[i].Gap_Min * Cardinality(Batch(i)) = PriorGap(i)

(* C3 (amended): gaps are between consecutive events; in a batch of k      *)
(* events preceded by a gap of D seconds the first event of the batch in   *)
(* sorted order is assigned D and the other k-1 events are assigned 0.     *)
C3_GapOnFirstOfBatch ==
  Returned =>
    \A i \in 1..N :
      HasPrior(i) =>
        df_final[i].Gap_Min = (IF i = BatchFirst(i) THEN PriorGap(i) ELSE 0)

C3_Witness ==
  /\ Returned
  /\ \E i \in 1..N :
       HasPrior(i) /\ Cardinality(Batch(i)) >= 2 /\ PriorGap(i) > 0

(* C4: the normalized output holds exactly the rows whose timestamp        *)
(* parses, each with its parsed timestamp, in ascending timestamp order,   *)
(* and every Gap_Min is >= 0.                                              *)
C4_NormalizedSorted ==
  Returned =>
    /\ {df_final[i].idx : i \in 1..N}
         = {df_arg[i].idx : i \in {j \in DOMAIN df_arg : ToDatetime(df_arg[j].fec) # NaT}}
    /\ N = ValidCount(df_arg)
    /\ \A i \in 1..N : df_final[i].fec = ToDatetime(df_arg[df_final[i].idx + 1].fec)
    /\ \A i \in 2..N : Sec(i - 1) <= Sec(i)
    /\ \A i \in 1..N : df_final[i].Gap_Min >= 0

C4_Witness ==
  /\ Returned
  /\ N >= 2
  /\ ValidCount(df_arg) < Len(df_arg)
  /\ \E i, j \in DOMAIN df_arg :
       /\ i < j
       /\ ToDatetime(df_arg[i].fec) # NaT
       /\ ToDatetime(df_arg[j].fec) # NaT
       /\ ToDatetime(df_arg[i].fec).sec > ToDatetime(df_arg[j].fec).sec

(* C5: normalization keeps exactly one event per unit identifier.          *)
C5_OnePerUnitId ==
  Returned =>
    \A i, j \in 1..N : i # j => df_final[i].unit_id # df_final[j].unit_id

C7_CapacityPositive ==
  (KpisDone /\ h_turno > 0) => (capacidad.den > 0 /\ capacidad.num > 0)

(* C7 (amended): a cycle time <= 0 is not clamped: the division is skipped *)
(* and capacity is 0.  Capacity is always finite (never a division by      *)
(* zero); for a cycle time > 0 it is shift_minutes / cycle_minutes *       *)
(* efficiency, positive when the shift hours are positive.                 *)
C7_CapacityGuarded ==
  KpisDone =>
    /\ capacidad.den > 0
    /\ ct_medio_global.num <= 0 => capacidad = Zero
    /\ ct_medio_global.num > 0 =>
         /\ capacidad.num = h_turno * 60 * eficiencia_target * ct_medio_global.den
         /\ capacidad.den = 100 * ct_medio_global.num
         /\ h_turno > 0 => capacidad.num > 0

C7_Witness ==
  /\ KpisDone
  /\ N >= 2
  /\ h_turno > 0
  /\ ct_medio_global.num = 0

(* C8: with fewer than 2 rows of parseable timestamp no rate estimate is   *)
(* produced and no completed analysis is reported.                         *)
C8_TooFewRowsNoEstimate ==
  KpisDone => ValidCount(df_arg) >= 2

(* C9: the table passed to procesar_celestica is unchanged by the call.    *)
C9_InputUnchanged ==
  Returned => df_clean = df_arg

BloqueStep(i) == df_final[i].Bloque_ID - df_final[i - 1].Bloque_ID

BloqueRest ==
  /\ \A i \in 2..N :
       /\ BloqueStep(i) \in {0, 1}
       /\ BloqueStep(i) = 1 <=> Delta(i) > Umbral
       /\ df_final[i].Tiempo_Real_Trabajado
            = (IF Delta(i) > Umbral THEN 0 ELSE df_final[i].Gap_Min)
       /\ Delta(i) <= Umbral => df_final[i].Gap_Min <= Umbral
  /\ N >= 1 => df_final[1].Tiempo_Real_Trabajado = 0

(* C10 (as stated): Bloque_ID starts at 0 for the first event, never       *)
(* decreases, increases by exactly 1 at an event iff its gap from the      *)
(* previous event is strictly greater than umbral_descanso;                *)
(* Tiempo_Real_Trabajado is 0 at an event that opens a block and Gap_Min   *)
(* (<= umbral_descanso) at every other event.                              *)
C10_BloqueFromZero ==
  Returned => (BloqueRest /\ (N >= 1 => df_final[1].Bloque_ID = 0))

(* C10 (amended): as stated, except that the first event's Bloque_ID is 0  *)
(* only when umbral_descanso >= 0; for a negative umbral_descanso the      *)
(* first event's filled-in gap of 0 exceeds the threshold and its          *)
(* Bloque_ID is 1.                                                         *)
C10_BloqueFromFirstGap ==
  Returned =>
    (BloqueRest
       /\ (N >= 1 => df_final[1].Bloque_ID = (IF umbral_descanso >= 0 THEN 0 ELSE 1)))

C10_Witness ==
  /\ Returned
  /\ N >= 3
  /\ umbral_descanso >= 0
  /\ IdleGaps # {}
  /\ WorkGaps # {}

====
